---------------------------- MODULE Spec2Model ----------------------------
(***************************************************************************)
(* A model of app.py, the DigitalSEE TEI XML viewer: one invocation of     *)
(* main() over a directory of TEI files.  Text is a sequence of one        *)
(* character strings, so that lower(), strip(), split(',') and the         *)
(* substring test `in` are computed as Python computes them.  A parsed     *)
(* tree is a record holding, for every XPath the program evaluates, the    *)
(* .text of the matching elements in document order (<<>> stands for a     *)
(* .text of None: every use in the code is guarded by `if x.text`).        *)
(***************************************************************************)
EXTENDS Naturals, Sequences, FiniteSets

VARIABLES
    folder,             \* what ./xmls is: "missing", "file" or "dir"
    disk,               \* the content of each *.xml file, as it is on disk now
    pc,                 \* position of main()
    outcome,            \* the message main() stopped with ("" while running)
    xml_files,          \* list(xml_folder.glob("*.xml"))
    loadIdx,            \* position of the loading loop in xml_files
    parsed_trees,
    valid_files,
    errors,             \* the file names parse_xml reported with st.error
    all_authors,
    all_keywords,
    all_place_names,
    author_to_places,
    author_to_keywords,
    selected_author,
    selected_place,
    selected_keyword,
    matched_files,
    total_matches,      \* the number written as "Total Matches" (0: not written)
    rendered            \* file -> the tree its expander and download were made from

vars == <<folder, disk, pc, outcome, xml_files, loadIdx, parsed_trees, valid_files,
          errors, all_authors, all_keywords, all_place_names, author_to_places,
          author_to_keywords, selected_author, selected_place, selected_keyword,
          matched_files, total_matches, rendered>>

\* The largest number of *.xml files in the directory.
MaxFiles == 2

-----------------------------------------------------------------------------
(* Python's str operations on text *)

UpperLetters == <<"A","B","C","D","E","F","G","H","I","J","K","L","M",
                  "N","O","P","Q","R","S","T","U","V","W","X","Y","Z">>

LowerLetters == <<"a","b","c","d","e","f","g","h","i","j","k","l","m",
                  "n","o","p","q","r","s","t","u","v","w","x","y","z">>

Whitespace == {" ", "\t", "\n", "\r"}

LowerChar(c) ==
    IF \E i \in 1..26 : UpperLetters[i] = c
        THEN LowerLetters[CHOOSE i \in 1..26 : UpperLetters[i] = c]
        ELSE c

\* str.lower()
Lower(s) == [i \in 1..Len(s) |-> LowerChar(s[i])]

\* str.strip(): leading and trailing whitespace removed
Strip(s) ==
    LET keep == {i \in 1..Len(s) : s[i] \notin Whitespace}
    IN  IF keep = {} THEN <<>>
        ELSE LET lo == CHOOSE i \in keep : \A j \in keep : i <= j
                 hi == CHOOSE i \in keep : \A j \in keep : j <= i
             IN  SubSeq(s, lo, hi)

\* sub in s
Contains(sub, s) ==
    \E i \in 1..(Len(s) + 1) :
        /\ i + Len(sub) - 1 <= Len(s)
        /\ SubSeq(s, i, i + Len(sub) - 1) = sub

\* str.split(','): the segments between the commas, empty ones included
RECURSIVE SplitFrom(_, _, _)
SplitFrom(s, i, cur) ==
    IF i > Len(s) THEN <<cur>>
    ELSE IF s[i] = "," THEN <<cur>> \o SplitFrom(s, i + 1, <<>>)
    ELSE SplitFrom(s, i + 1, Append(cur, s[i]))

Split(s) == SplitFrom(s, 1, <<>>)

\* the elements of a list, as a set
Range(q) == {q[i] : i \in 1..Len(q)}

\* the literal 'none' of the place filters
NoneLiteral == <<"n","o","n","e">>

\* the first option of each selectbox
NoAuthor == <<"-- Select Author --">>

NoPlace == <<"-- Select Place --">>

NoKeyword == <<"-- Select Keyword --">>


-----------------------------------------------------------------------------
(* The XPath queries: what each returns on a parsed tree *)

\* //tei:bibl/tei:author/tei:persName
XBibAuthors(tree) == tree.bibAuthor

\* //tei:keywords/tei:list/tei:item
XKeywordItems(tree) == tree.kwItem

\* //tei:provenance/tei:placeName
XProvenancePlaces(tree) == tree.provPlace

\* //tei:location/tei:name[@type="place"]
XLocationNames(tree) == tree.locPlace

\* //tei:div[@type="commentary"]//tei:name[@type="contemporary"]
XContemporaryNames(tree) == tree.contempGeneral \o tree.contempOther

\* //tei:div[@type="commentary" and @subtype="general"]//tei:name[@type="contemporary"]
XContemporaryGeneral(tree) == tree.contempGeneral

\* //tei:name[@type="current"]
XCurrentNames(tree) == tree.current

\* //tei:location//tei:geo
XGeoElements(tree) == tree.geo

\* //tei:div[@type="commentary"]//tei:seg
XCommentarySegs(tree) == tree.seg

-----------------------------------------------------------------------------
(* The corpus-wide extractors *)

\* `if x.text`: the text is neither None nor empty
Truthy(t) == t # <<>>

get_all_authors(trees) ==
    UNION {{Strip(t) : t \in {u \in Range(XBibAuthors(tree)) : Truthy(u)}} :
           tree \in Range(trees)}

get_all_keywords(trees) ==
    UNION {UNION {{Strip(kw) : kw \in Range(Split(t))} :
                  t \in {u \in Range(XKeywordItems(tree)) : Truthy(u)}} :
           tree \in Range(trees)}

\* one of the four loops of get_all_place_names over the elements found
PlaceLoop(elems) ==
    {Strip(t) : t \in {u \in Range(elems) : Truthy(u) /\ Lower(u) # NoneLiteral}}

get_all_place_names(trees) ==
    UNION {PlaceLoop(XProvenancePlaces(tree)) \cup PlaceLoop(XLocationNames(tree))
             \cup PlaceLoop(XContemporaryNames(tree)) \cup PlaceLoop(XCurrentNames(tree)) :
           tree \in Range(trees)}

-----------------------------------------------------------------------------
(* build_author_mappings: its own copy of the three extractions, and the    *)
(* two defaultdict(set) it fills, document by document                      *)

\* the author extraction as it would be if only the first persName were read
BamAuthorsFirstOnly(tree) ==
    LET named == SelectSeq(XBibAuthors(tree), LAMBDA u : Truthy(u))
    IN  IF named = <<>> THEN {} ELSE {Strip(named[1])}

BamAuthors(tree) ==
    {Strip(t) : t \in {u \in Range(XBibAuthors(tree)) : Truthy(u)}}

\* one of the four place loops of build_author_mappings
BamPlaceLoop(elems) ==
    {Strip(t) : t \in {u \in Range(elems) : Truthy(u) /\ Lower(u) # NoneLiteral}}

BamPlaces(tree) ==
    BamPlaceLoop(XProvenancePlaces(tree)) \cup BamPlaceLoop(XLocationNames(tree))
      \cup BamPlaceLoop(XContemporaryNames(tree)) \cup BamPlaceLoop(XCurrentNames(tree))

BamKeywords(tree) ==
    UNION {{Strip(kw) : kw \in Range(Split(t))} :
           t \in {u \in Range(XKeywordItems(tree)) : Truthy(u)}}

\* the update as it would be with m[author] = vals
DictAssign(m, authors, vals) ==
    [a \in (DOMAIN m) \cup authors |-> IF a \in authors THEN vals ELSE m[a]]

\* for author in authors: m[author].update(vals), m a defaultdict(set)
DictUpdate(m, authors, vals) ==
    [a \in (DOMAIN m) \cup authors |->
        IF a \in authors
            THEN (IF a \in DOMAIN m THEN m[a] ELSE {}) \cup vals
            ELSE m[a]]

EmptyDict == [a \in {} |-> {}]

\* the loop over parsed_trees: the maps after the first n trees
RECURSIVE BamLoop(_, _)
BamLoop(trees, n) ==
    IF n = 0 THEN [places |-> EmptyDict, keywords |-> EmptyDict]
    ELSE LET before == BamLoop(trees, n - 1)
             tree == trees[n]
         IN  [places   |-> DictUpdate(before.places, BamAuthors(tree), BamPlaces(tree)),
              keywords |-> DictUpdate(before.keywords, BamAuthors(tree), BamKeywords(tree))]

build_author_mappings(trees) == BamLoop(trees, Len(trees))

-----------------------------------------------------------------------------
(* The search predicates: each returns the list of hits in one tree *)

\* the author predicate as it would be with author_query == author.text
search_by_author_exact(tree, author_query) ==
    SelectSeq(XBibAuthors(tree), LAMBDA t : Truthy(t) /\ author_query = t)

search_by_author(tree, author_query) ==
    SelectSeq(XBibAuthors(tree),
              LAMBDA t : Truthy(t) /\ Contains(Lower(author_query), Lower(t)))

\* the place predicate as it would be without place_query.lower()
search_by_place_cased(tree, place_query) ==
    SelectSeq(XProvenancePlaces(tree),
              LAMBDA t : /\ Truthy(t)
                         /\ Contains(place_query, Lower(t))
                         /\ Lower(t) # NoneLiteral)
    \o SelectSeq(XContemporaryGeneral(tree),
              LAMBDA t : Truthy(t) /\ Contains(place_query, Lower(t)))
    \o SelectSeq(XGeoElements(tree),
              LAMBDA t : /\ Truthy(t)
                         /\ Contains(place_query, Lower(t))
                         /\ Lower(t) # NoneLiteral)

search_by_place(tree, place_query) ==
    LET place_query_lower == Lower(place_query)
    IN  SelectSeq(XProvenancePlaces(tree),
                  LAMBDA t : /\ Truthy(t)
                             /\ Contains(place_query_lower, Lower(t))
                             /\ Lower(t) # NoneLiteral)
        \o SelectSeq(XContemporaryGeneral(tree),
                  LAMBDA t : Truthy(t) /\ Contains(place_query_lower, Lower(t)))
        \o SelectSeq(XGeoElements(tree),
                  LAMBDA t : /\ Truthy(t)
                             /\ Contains(place_query_lower, Lower(t))
                             /\ Lower(t) # NoneLiteral)

search_by_keyword(tree, keyword) ==
    SelectSeq(XKeywordItems(tree),
              LAMBDA t : Truthy(t) /\ Contains(Lower(keyword), Lower(t)))
    \o SelectSeq(XCommentarySegs(tree),
              LAMBDA t : Truthy(t) /\ Contains(Lower(keyword), Lower(t)))

\* for tree, file in zip(parsed_trees, valid_files): the files whose tree has a hit
AuthorMatched(trees, files, q) ==
    {files[i] : i \in {j \in 1..Len(files) : search_by_author(trees[j], q) # <<>>}}

PlaceMatched(trees, files, q) ==
    {files[i] : i \in {j \in 1..Len(files) : search_by_place(trees[j], q) # <<>>}}

KeywordMatched(trees, files, q) ==
    {files[i] : i \in {j \in 1..Len(files) : search_by_keyword(trees[j], q) # <<>>}}

\* the search as it would be if the keyword step assigned keyword_matched
\* instead of intersecting with it
SearchKeywordAssigned(trees, files, author, place, keyword) ==
    LET m0 == Range(files)
        m1 == IF author # NoAuthor
                  THEN m0 \cap AuthorMatched(trees, files, author) ELSE m0
        m2 == IF place # NoPlace
                  THEN m1 \cap PlaceMatched(trees, files, place) ELSE m1
    IN  IF keyword # NoKeyword THEN KeywordMatched(trees, files, keyword) ELSE m2

\* the body of `if st.button("Search")` up to the final matched_files
Search(trees, files, author, place, keyword) ==
    LET m0 == Range(files)
        m1 == IF author # NoAuthor
                  THEN m0 \cap AuthorMatched(trees, files, author) ELSE m0
        m2 == IF place # NoPlace
                  THEN m1 \cap PlaceMatched(trees, files, place) ELSE m1
        m3 == IF keyword # NoKeyword
                  THEN m2 \cap KeywordMatched(trees, files, keyword) ELSE m2
    IN  m3

-----------------------------------------------------------------------------
(* The documents the directory may hold *)

Tree(a, k, pp, lp, cg, co, cu, g, sg) ==
    [bibAuthor |-> a, kwItem |-> k, provPlace |-> pp, locPlace |-> lp,
     contempGeneral |-> cg, contempOther |-> co, current |-> cu, geo |-> g, seg |-> sg]

EmptyTree == Tree(<<>>, <<>>, <<>>, <<>>, <<>>, <<>>, <<>>, <<>>, <<>>)

\* one author, a provenance place, a keyword item "a, b,c"
DocRome ==
    Tree(<< <<"A","n","n">> >>,
         << <<"a",","," ","b",",","c">> >>,
         << <<"R","o","m","e">> >>, <<>>, <<>>, <<>>, <<>>, <<>>, <<>>)

\* two authors, a place found only as location name, a keyword item "Ab,,c"
DocPisa ==
    Tree(<< <<"A","n","n">>, <<"B","o">> >>,
         << <<"A","b",",",",","c">> >>,
         <<>>, << <<"P","i","s","a">> >>, <<>>, <<>>, <<>>, <<>>, <<>>)

\* no author; provenance " None ", a current name, a commentary segment
DocOslo ==
    Tree(<<>>, <<>>,
         << <<" ","N","o","n","e"," ">> >>, <<>>, <<>>, <<>>,
         << <<"O","s","l","o">> >>, <<>>, << <<"a","b">> >>)

\* author " an ", contemporary names in a general and in another commentary, a geo
DocRoma ==
    Tree(<< <<" ","a","n"," ">> >>, <<>>,
         <<>>, <<>>, << <<"R","o","m","a">> >>, << <<"N","o","l","a">> >>,
         <<>>, << <<"4","1">> >>, <<>>)

\* author Bo and an author element without text; provenance "none" and " ";
\* location name "None"; keyword item "c," 
DocNone ==
    Tree(<< <<"B","o">>, <<>> >>,
         << <<"c",",">> >>,
         << <<"n","o","n","e">>, <<" ">> >>, << <<"N","o","n","e">> >>,
         <<>>, <<>>, <<>>, <<>>, <<>>)

DocPool == {DocRome, DocPisa, DocOslo, DocRoma, DocNone, EmptyTree}

\* a file: whether etree.parse accepts it, and the tree it then gives
Malformed == [wf |-> FALSE, tree |-> EmptyTree]

Contents == {[wf |-> TRUE, tree |-> d] : d \in DocPool} \cup {Malformed}

\* parse_xml as it would be with a recovering parser: a tree for every file
parse_xml_recover(content) == <<content.tree>>

\* parse_xml: the tree in a one-element list, or <<>> for None
parse_xml(content) == IF content.wf THEN <<content.tree>> ELSE <<>>

-----------------------------------------------------------------------------
(* main() *)

Init ==
    /\ folder \in {"missing", "file", "dir"}
    /\ \E n \in 0..MaxFiles :
          /\ folder # "dir" => n = 0
          /\ disk \in [1..n -> Contents]
    /\ pc = "start"
    /\ outcome = ""
    /\ xml_files = <<>>
    /\ loadIdx = 1
    /\ parsed_trees = <<>>
    /\ valid_files = <<>>
    /\ errors = <<>>
    /\ all_authors = {}
    /\ all_keywords = {}
    /\ all_place_names = {}
    /\ author_to_places = EmptyDict
    /\ author_to_keywords = EmptyDict
    /\ selected_author = NoAuthor
    /\ selected_place = NoPlace
    /\ selected_keyword = NoKeyword
    /\ matched_files = {}
    /\ total_matches = 0
    /\ rendered = <<>>

\* if not xml_folder.exists() or not xml_folder.is_dir(): st.error; st.stop()
CheckFolder ==
    /\ pc = "start"
    /\ IF folder # "dir"
          THEN pc' = "stopped" /\ outcome' = "error: not a directory"
          ELSE pc' = "glob" /\ outcome' = outcome
    /\ UNCHANGED <<folder, disk, xml_files, loadIdx, parsed_trees, valid_files,
                   errors, all_authors, all_keywords, all_place_names,
                   author_to_places, author_to_keywords, selected_author,
                   selected_place, selected_keyword, matched_files, total_matches,
                   rendered>>

\* xml_files = list(xml_folder.glob("*.xml")); if not xml_files: st.info; st.stop()
Glob ==
    /\ pc = "glob"
    /\ xml_files' = [i \in DOMAIN disk |-> i]
    /\ IF DOMAIN disk = {}
          THEN pc' = "stopped" /\ outcome' = "info: no xml files"
          ELSE pc' = "load" /\ outcome' = outcome
    /\ UNCHANGED <<folder, disk, loadIdx, parsed_trees, valid_files,
                   errors, all_authors, all_keywords, all_place_names,
                   author_to_places, author_to_keywords, selected_author,
                   selected_place, selected_keyword, matched_files, total_matches,
                   rendered>>

\* one iteration of `for file in xml_files`
LoadFile ==
    /\ pc = "load"
    /\ loadIdx <= Len(xml_files)
    /\ LET file == xml_files[loadIdx]
           tree == parse_xml(disk[file])
       IN  IF tree # <<>>
              THEN /\ parsed_trees' = Append(parsed_trees, tree[1])
                   /\ valid_files' = Append(valid_files, file)
                   /\ errors' = errors
              ELSE /\ errors' = Append(errors, file)
                   /\ UNCHANGED <<parsed_trees, valid_files>>
    /\ loadIdx' = loadIdx + 1
    /\ UNCHANGED <<folder, disk, pc, outcome, xml_files,
                   all_authors, all_keywords, all_place_names,
                   author_to_places, author_to_keywords, selected_author,
                   selected_place, selected_keyword, matched_files, total_matches,
                   rendered>>

\* if not parsed_trees: st.error; st.stop()
StopNoValid ==
    /\ pc = "load"
    /\ loadIdx > Len(xml_files)
    /\ parsed_trees = <<>>
    /\ pc' = "stopped"
    /\ outcome' = "error: no valid xml files"
    /\ UNCHANGED <<folder, disk, xml_files, loadIdx, parsed_trees, valid_files,
                   errors, all_authors, all_keywords, all_place_names,
                   author_to_places, author_to_keywords, selected_author,
                   selected_place, selected_keyword, matched_files, total_matches,
                   rendered>>

\* the indexing step as it would be without `if not parsed_trees: st.stop()`
IndexUnchecked ==
    /\ pc = "load"
    /\ loadIdx > Len(xml_files)
    /\ all_authors' = get_all_authors(parsed_trees)
    /\ all_keywords' = get_all_keywords(parsed_trees)
    /\ all_place_names' = get_all_place_names(parsed_trees)
    /\ LET maps == build_author_mappings(parsed_trees)
       IN  /\ author_to_places' = maps.places
           /\ author_to_keywords' = maps.keywords
    /\ pc' = "select"
    /\ UNCHANGED <<folder, disk, outcome, xml_files, loadIdx, parsed_trees,
                   valid_files, errors, selected_author,
                   selected_place, selected_keyword, matched_files, total_matches,
                   rendered>>

\* the three corpus-wide lists and the two maps
Index ==
    /\ pc = "load"
    /\ loadIdx > Len(xml_files)
    /\ parsed_trees # <<>>
    /\ all_authors' = get_all_authors(parsed_trees)
    /\ all_keywords' = get_all_keywords(parsed_trees)
    /\ all_place_names' = get_all_place_names(parsed_trees)
    /\ LET maps == build_author_mappings(parsed_trees)
       IN  /\ author_to_places' = maps.places
           /\ author_to_keywords' = maps.keywords
    /\ pc' = "select"
    /\ UNCHANGED <<folder, disk, outcome, xml_files, loadIdx, parsed_trees,
                   valid_files, errors, selected_author,
                   selected_place, selected_keyword, matched_files, total_matches,
                   rendered>>

\* the three selectboxes: the place and keyword options are narrowed to the
\* selected author's when an author is selected
Select ==
    /\ pc = "select"
    /\ \E a \in {NoAuthor} \cup all_authors :
          LET filtered_places ==
                  IF a # NoAuthor THEN author_to_places[a] ELSE all_place_names
              filtered_keywords ==
                  IF a # NoAuthor THEN author_to_keywords[a] ELSE all_keywords
          IN  /\ selected_author' = a
              /\ selected_place' \in {NoPlace} \cup filtered_places
              /\ selected_keyword' \in {NoKeyword} \cup filtered_keywords
    /\ pc' = "button"
    /\ UNCHANGED <<folder, disk, outcome, xml_files, loadIdx, parsed_trees,
                   valid_files, errors, all_authors, all_keywords, all_place_names,
                   author_to_places, author_to_keywords, matched_files,
                   total_matches, rendered>>

\* st.button("Search") is True: the matched set, and its size when not empty
PressSearch ==
    /\ pc = "button"
    /\ matched_files' = Search(parsed_trees, valid_files, selected_author,
                               selected_place, selected_keyword)
    /\ total_matches' = Cardinality(matched_files')
    /\ pc' = IF matched_files' # {} THEN "render" ELSE "view_all"
    /\ outcome' = IF matched_files' # {} THEN outcome ELSE "no matching files"
    /\ UNCHANGED <<folder, disk, xml_files, loadIdx, parsed_trees,
                   valid_files, errors, all_authors, all_keywords, all_place_names,
                   author_to_places, author_to_keywords, selected_author,
                   selected_place, selected_keyword, rendered>>

\* st.button("Search") is False
NoSearch ==
    /\ pc = "button"
    /\ pc' = "view_all"
    /\ UNCHANGED <<folder, disk, outcome, xml_files, loadIdx, parsed_trees,
                   valid_files, errors, all_authors, all_keywords, all_place_names,
                   author_to_places, author_to_keywords, selected_author,
                   selected_place, selected_keyword, matched_files, total_matches,
                   rendered>>

\* one iteration of `for file in matched_files`: the file is parsed again, and
\* its expander and download are made from that tree when there is one
RenderFile ==
    /\ pc = "render"
    /\ \E file \in matched_files \ DOMAIN rendered :
          LET tree == parse_xml(disk[file])
          IN  /\ rendered' = [f \in (DOMAIN rendered) \cup {file} |->
                                 IF f = file THEN tree ELSE rendered[f]]
              /\ errors' = IF tree = <<>> THEN Append(errors, file) ELSE errors
    /\ UNCHANGED <<folder, disk, pc, outcome, xml_files, loadIdx, parsed_trees,
                   valid_files, all_authors, all_keywords, all_place_names,
                   author_to_places, author_to_keywords, selected_author,
                   selected_place, selected_keyword, matched_files, total_matches>>

\* the loop over matched_files is over
RenderDone ==
    /\ pc = "render"
    /\ matched_files \subseteq DOMAIN rendered
    /\ pc' = "view_all"
    /\ UNCHANGED <<folder, disk, outcome, xml_files, loadIdx, parsed_trees,
                   valid_files, errors, all_authors, all_keywords, all_place_names,
                   author_to_places, author_to_keywords, selected_author,
                   selected_place, selected_keyword, matched_files, total_matches,
                   rendered>>

\* "View All Loaded XML Files": made from parsed_trees, and the sidebar
ViewAll ==
    /\ pc = "view_all"
    /\ pc' = "done"
    /\ UNCHANGED <<folder, disk, outcome, xml_files, loadIdx, parsed_trees,
                   valid_files, errors, all_authors, all_keywords, all_place_names,
                   author_to_places, author_to_keywords, selected_author,
                   selected_place, selected_keyword, matched_files, total_matches,
                   rendered>>

\* The environment: a matched file not yet rendered is rewritten, truncated or
\* removed on disk while main() runs
FileChange ==
    /\ pc = "render"
    /\ \E file \in matched_files \ DOMAIN rendered :
       \E c \in {Malformed, [wf |-> TRUE, tree |-> EmptyTree]} :
          /\ disk[file] = [wf |-> TRUE, tree |-> parsed_trees[
                   CHOOSE i \in 1..Len(valid_files) : valid_files[i] = file]]
          /\ c # disk[file]
          /\ disk' = [disk EXCEPT ![file] = c]
    /\ UNCHANGED <<folder, pc, outcome, xml_files, loadIdx, parsed_trees,
                   valid_files, errors, all_authors, all_keywords, all_place_names,
                   author_to_places, author_to_keywords, selected_author,
                   selected_place, selected_keyword, matched_files, total_matches,
                   rendered>>

Next ==
    \/ CheckFolder
    \/ Glob
    \/ LoadFile
    \/ StopNoValid
    \/ Index
    \/ Select
    \/ PressSearch
    \/ NoSearch
    \/ RenderFile
    \/ RenderDone
    \/ ViewAll
    \/ FileChange

Spec == Init /\ [][Next]_vars

-----------------------------------------------------------------------------
(* Properties *)

\* main() is past the extraction and indexing step
Indexed == pc \in {"select", "button", "render", "view_all", "done"}

\* build_author_mappings has just returned its two maps
IndexBuilt == pc = "select"

\* the search step has run in this invocation
SearchRan == matched_files # {} \/ outcome = "no matching files"

\* the tree parsed at load time for a valid file
LoadedTree(file) ==
    parsed_trees[CHOOSE i \in 1..Len(valid_files) : valid_files[i] = file]

\* every value set of a map
Values(m) == UNION {m[a] : a \in DOMAIN m}

\* C1: no extracted place (in the corpus-wide place list or in any value set of
\* authorToPlaces) is "none" in any casing, and none is empty or whitespace-only.
C1_PlacesNeverNoneNorBlank ==
    Indexed =>
        \A p \in all_place_names \cup Values(author_to_places) :
            /\ Lower(p) # NoneLiteral
            /\ Strip(p) # <<>>

\* the trimmed, non-empty comma-delimited segments of one keyword item
TrimmedSegments(t) == {Strip(x) : x \in Range(Split(t))} \ {<<>>}

\* C2: the extracted keywords are exactly the trimmed comma-delimited segments of
\* the keyword items, empty segments excluded: no keyword is empty, none has
\* leading or trailing whitespace.
C2_KeywordsAreTrimmedNonEmptySegments ==
    Indexed =>
        /\ all_keywords =
              UNION {UNION {TrimmedSegments(t) : t \in Range(XKeywordItems(tree))} :
                     tree \in Range(parsed_trees)}
        /\ \A k \in all_keywords \cup Values(author_to_keywords) :
              k # <<>> /\ Strip(k) = k

\* C3: the matched set is the intersection of the three single-term matched
\* sets, an absent term matching every parsed document; with no term at all it
\* is the set of all parsed documents.
C3_IntersectionLaw ==
    SearchRan =>
        LET all == Range(valid_files)
            byAuthor == IF selected_author = NoAuthor THEN all
                        ELSE AuthorMatched(parsed_trees, valid_files, selected_author)
            byPlace == IF selected_place = NoPlace THEN all
                       ELSE PlaceMatched(parsed_trees, valid_files, selected_place)
            byKeyword == IF selected_keyword = NoKeyword THEN all
                         ELSE KeywordMatched(parsed_trees, valid_files, selected_keyword)
        IN  /\ matched_files = byAuthor \cap byPlace \cap byKeyword
            /\ (/\ selected_author = NoAuthor
                /\ selected_place = NoPlace
                /\ selected_keyword = NoKeyword) => matched_files = all

\* C3 witness: a search with all three terms that matches some documents and
\* not others
C3_Witness ==
    /\ SearchRan
    /\ selected_author # NoAuthor
    /\ selected_place # NoPlace
    /\ selected_keyword # NoKeyword
    /\ matched_files # {}
    /\ matched_files # Range(valid_files)

\* the trees of the corpus that credit author a
Crediting(a) ==
    {i \in 1..Len(parsed_trees) : a \in get_all_authors(<<parsed_trees[i]>>)}

\* C4: each map's key set is the set of authors credited in some document, and
\* an author's places (keywords) are the union of places(D) (keywords(D)) over
\* exactly the documents D crediting that author.
C4_MapsAreUnionsOverCreditingDocuments ==
    IndexBuilt =>
        LET credited == UNION {get_all_authors(<<parsed_trees[i]>>) :
                               i \in 1..Len(parsed_trees)}
        IN  /\ DOMAIN author_to_places = credited
            /\ DOMAIN author_to_keywords = credited
            /\ \A a \in credited :
                  /\ author_to_places[a] =
                        UNION {get_all_place_names(<<parsed_trees[i]>>) : i \in Crediting(a)}
                  /\ author_to_keywords[a] =
                        UNION {get_all_keywords(<<parsed_trees[i]>>) : i \in Crediting(a)}

\* C4 witness: an indexed corpus with a document of two authors that has places
\* and keywords, and a document of no author that has places
C4_Witness ==
    /\ IndexBuilt
    /\ \E i \in 1..Len(parsed_trees) :
          /\ Cardinality(get_all_authors(<<parsed_trees[i]>>)) = 2
          /\ get_all_place_names(<<parsed_trees[i]>>) # {}
          /\ get_all_keywords(<<parsed_trees[i]>>) # {}
    /\ \E i \in 1..Len(parsed_trees) :
          /\ get_all_authors(<<parsed_trees[i]>>) = {}
          /\ get_all_place_names(<<parsed_trees[i]>>) # {}

\* the permutations of 1..n
Perms(n) == {q \in [1..n -> 1..n] : \A i, j \in 1..n : i # j => q[i] # q[j]}

\* C5: processing the documents in any order yields the same two maps.
C5_IndexIsOrderIndependent ==
    IndexBuilt =>
        \A q \in Perms(Len(parsed_trees)) :
            build_author_mappings([i \in 1..Len(parsed_trees) |-> parsed_trees[q[i]]])
              = [places |-> author_to_places, keywords |-> author_to_keywords]

\* C5 witness: an indexed corpus where two documents credit the same author and
\* have different places
C5_Witness ==
    /\ IndexBuilt
    /\ \E i, j \in 1..Len(parsed_trees) :
          /\ i # j
          /\ get_all_authors(<<parsed_trees[i]>>) \cap get_all_authors(<<parsed_trees[j]>>) # {}
          /\ get_all_place_names(<<parsed_trees[i]>>) # get_all_place_names(<<parsed_trees[j]>>)

\* the loading loop has handled the first n files
LoadedUpTo(n) ==
    LET seen == SubSeq(xml_files, 1, n)
    IN  /\ valid_files = SelectSeq(seen, LAMBDA f : disk[f].wf)
        /\ errors = SelectSeq(seen, LAMBDA f : ~disk[f].wf)
        /\ Len(parsed_trees) = Len(valid_files)
        /\ \A i \in 1..Len(valid_files) : parsed_trees[i] = disk[valid_files[i]].tree

\* C6: at every point of loading, each malformed file met so far is reported
\* once by name and left out, and the corpus holds exactly the well-formed files
\* met so far, each once, tree and file paired by index; at the end of loading
\* this covers all files.
C6_LoadingKeepsExactlyWellFormed ==
    /\ pc = "load" => LoadedUpTo(loadIdx - 1)
    /\ pc \in {"select", "button"} => LoadedUpTo(Len(xml_files))

\* C6 witness: loading is over, a malformed file was met before a well-formed one
C6_Witness ==
    /\ pc = "select"
    /\ errors # <<>>
    /\ valid_files # <<>>
    /\ errors[1] < valid_files[Len(valid_files)]

\* nothing of the extraction, indexing, selection or search steps was done
NothingComputed ==
    /\ all_authors = {} /\ all_keywords = {} /\ all_place_names = {}
    /\ author_to_places = EmptyDict /\ author_to_keywords = EmptyDict
    /\ selected_author = NoAuthor /\ selected_place = NoPlace
    /\ selected_keyword = NoKeyword
    /\ matched_files = {} /\ total_matches = 0 /\ rendered = <<>>

MissingCorpus == folder # "dir" \/ DOMAIN disk = {}

\* C7: a missing corpus, or a corpus whose files all fail to parse, ends the
\* invocation in a terminal state with nothing extracted, indexed, selected or
\* searched; the two ends are told apart by their message; the later steps are
\* reached only with at least one parsed file.
C7_TerminalConditions ==
    /\ MissingCorpus => pc \in {"start", "glob", "stopped"}
    /\ pc = "stopped" =>
          /\ NothingComputed
          /\ ~ ENABLED Next
          /\ outcome \in {"error: not a directory", "info: no xml files"}
                <=> MissingCorpus
          /\ outcome = "error: no valid xml files"
                <=> (~MissingCorpus /\ \A f \in DOMAIN disk : ~disk[f].wf)
    /\ Indexed => ~MissingCorpus /\ parsed_trees # <<>>

\* C7 witness: the invocation stopped because both files failed to parse
C7_Witness ==
    /\ pc = "stopped"
    /\ outcome = "error: no valid xml files"
    /\ Len(errors) = 2

\* the place query was the only term of a search that ran
PlaceOnlySearch ==
    /\ SearchRan
    /\ selected_place # NoPlace
    /\ selected_author = NoAuthor
    /\ selected_keyword = NoKeyword

\* an element text that holds a place (not empty, not the absence marker)
\* containing the query, case-insensitively
PlaceHit(t, q) ==
    Truthy(t) /\ Lower(t) # NoneLiteral /\ Contains(Lower(q), Lower(t))

\* C8 (as claimed): a document with a place occurrence containing the query in
\* any of the four locations of the place extractor is matched by place search,
\* so every listed place matches at least one document.
C8_PlaceSearchCoversExtractorLocations ==
    PlaceOnlySearch =>
        /\ \A i \in 1..Len(valid_files) :
              (\E t \in Range(XProvenancePlaces(parsed_trees[i]))
                        \cup Range(XLocationNames(parsed_trees[i]))
                        \cup Range(XContemporaryNames(parsed_trees[i]))
                        \cup Range(XCurrentNames(parsed_trees[i])) :
                    PlaceHit(t, selected_place))
                 => valid_files[i] \in matched_files
        /\ matched_files # {}

\* C8 (amended): a document is matched by place search if a provenance
\* placeName, or a contemporary name inside a commentary division subtyped
\* "general", contains the query; a listed place taken from one of those two
\* locations matches at least one document.
C8_PlaceSearchCoversProvenanceAndGeneral ==
    PlaceOnlySearch =>
        /\ \A i \in 1..Len(valid_files) :
              (\E t \in Range(XProvenancePlaces(parsed_trees[i]))
                        \cup Range(XContemporaryGeneral(parsed_trees[i])) :
                    PlaceHit(t, selected_place))
                 => valid_files[i] \in matched_files
        /\ selected_place \in
              UNION {PlaceLoop(XProvenancePlaces(tree))
                       \cup PlaceLoop(XContemporaryGeneral(tree)) :
                     tree \in Range(parsed_trees)}
             => matched_files # {}

\* C8 witness: a place-only search for a listed place that matches some
\* documents and not others
C8_Witness ==
    /\ PlaceOnlySearch
    /\ matched_files # {}
    /\ matched_files # Range(valid_files)

\* C9: every expander and download is made from the tree parsed at load time,
\* the rendering of a matched file reports no error, and once the results are
\* rendered every file counted in "Total Matches" has its detail and export.
C9_RenderedFromLoadedTrees ==
    /\ \A f \in DOMAIN rendered : rendered[f] = <<LoadedTree(f)>>
    /\ (SearchRan /\ pc \in {"view_all", "done"}) =>
          Cardinality({f \in DOMAIN rendered : rendered[f] # <<>>}) = total_matches

\* C10: with an author chosen from the author list, a keyword chosen from that
\* author's narrowed list (or no keyword) and no place, the search is not empty
\* and holds every document that credits the author and lists the keyword.
C10_NarrowedSearchIsNotEmpty ==
    (SearchRan /\ selected_author # NoAuthor /\ selected_place = NoPlace) =>
        /\ matched_files # {}
        /\ \A i \in Crediting(selected_author) :
              (\/ selected_keyword = NoKeyword
               \/ selected_keyword \in get_all_keywords(<<parsed_trees[i]>>))
                 => valid_files[i] \in matched_files

\* C10 witness: an author and a keyword of the narrowed list were searched, and
\* the result leaves some document out
C10_Witness ==
    /\ SearchRan
    /\ selected_author # NoAuthor
    /\ selected_keyword # NoKeyword
    /\ selected_place = NoPlace
    /\ matched_files # {}
    /\ matched_files # Range(valid_files)

=============================================================================
